---- MODULE Spec2Model ----
(***************************************************************************)
(* Model of worker.PullSubscriber (src/worker/worker.go): the fetch loop,  *)
(* the per-message processors, the key-lock registry, the admission        *)
(* semaphore and Stop().  One action per atomic step of each goroutine;    *)
(* a critical section under a Go mutex is one step.                        *)
(***************************************************************************)
EXTENDS Integers, Sequences, FiniteSets, TLC

\* ---- bounds of the model ----
NumMsgs == 2
NumStoppers == 2
MaxCfg == 2
MaxTimeouts == 3
MaxLen == 2
QueueMsgs == 3

\* ---- program constants ----
DefaultBatchSize == 10
DefaultMaxConcurrent == 25
DefaultMaxWait == 30
KeyErrNakDelay == 5
HandlerErrNakDelay == 15

Msgs == 1..NumMsgs
Stoppers == 1..NumStoppers
\* the non-empty ordering keys a Handler may extract
Keys == {"A", "B"}
NoKey == ""
NoMutex == 0

VARIABLES
    cfg,          \* the cfg parameter of NewPullSubscriber: [BatchSize, MaxConcurrent, MaxWait]
    ctorPc,       \* position of NewPullSubscriber
    active,       \* ps.active
    mu,           \* holder of ps.mu: 0 = free, s = Stop caller s
    unsubscribed, \* number of ps.sub.Unsubscribe() calls made
    keyLocks,     \* ps.keyLocks: key -> mutex object (NoMutex = absent)
    mutexHolder,  \* mutex object -> processor holding it (0 = unlocked)
    semaphore,    \* number of elements in the ps.semaphore channel
    semCap,       \* capacity of the ps.semaphore channel (0 before make)
    loopPc,       \* position of startDispatcher
    batch,        \* msgs still to range over in the current batch
    nextMsg,      \* next message instance the queue will deliver
    stopPc,       \* position of each Stop() caller
    pc,           \* position of each processMessage goroutine
    lockingKey,   \* processMessage local: lockingKey
    keyMutex,     \* processMessage local: keyMutex
    outcome,      \* how GetLockingKey / Process ended: none, keyErr, ok, err, panic
    ackResult,    \* what msg.Ack returned: none, nil, err
    overran,      \* Handler.Process returned after the ctx deadline had passed
    processCalls, \* Handler.Process invocations per message
    finalized,    \* finalize calls per message: sequence of <<op, delay>>
    lockOps,      \* key-lock acquisitions and releases per message
    released,     \* receives from ps.semaphore per message
    crashed,      \* an unrecovered panic has ended the process
    gin,          \* the gin.Context of one HTTP request passing an auth middleware
    call,         \* one call of a library function: its arguments and what it returned
    timeouts,     \* Fetch timeouts so far, where Init starts the count (see NotCounted)
    fetches       \* Fetch calls that returned messages so far, where Init starts the count

vars == <<cfg, ctorPc, active, mu, unsubscribed, keyLocks, mutexHolder, semaphore,
          loopPc, batch, nextMsg, stopPc, pc, lockingKey, keyMutex, outcome,
          ackResult, overran, processCalls, finalized, lockOps, released, crashed,
          semCap, gin, call, timeouts, fetches, fetches>>

subVars == <<active, mu, unsubscribed>>
regVars == <<keyLocks, mutexHolder>>
loopVars == <<loopPc, batch, nextMsg>>
procVars == <<pc, lockingKey, keyMutex, outcome, ackResult, overran, processCalls, finalized,
              lockOps, released>>

\* ---- HTTP status codes used by the auth middlewares ----
StatusOK == 200
StatusNoContent == 204
StatusBadRequest == 400
StatusUnauthorized == 401
StatusForbidden == 403
StatusNotFound == 404
StatusInternalServerError == 500

\* ---- JSON values of a token's claims (map[string]interface{}) ----
\* a decoded value: its dynamic type t, its string s, its list l of elements
Absent == [t |-> "absent", s |-> "", l |-> <<>>]
NullV == [t |-> "nil", s |-> "", l |-> <<>>]
NumV == [t |-> "float64", s |-> "", l |-> <<>>]
StrV(x) == [t |-> "string", s |-> x, l |-> <<>>]
ListV(q) == [t |-> "list", s |-> "", l |-> q]
\* an element of a []interface{}
StrE(x) == [t |-> "string", s |-> x]
NumE == [t |-> "float64", s |-> ""]
\* the realm_access claim: absent, not a map, or a map with its "roles" entry
RealmAbsent == [t |-> "absent", roles |-> Absent]
RealmNotMap == [t |-> "string", roles |-> Absent]
RealmMap(r) == [t |-> "map", roles |-> r]

NoClaims == [aud |-> Absent, realm_access |-> RealmAbsent]
NoResponse == 0

\* the gin.Context before any request is handled: the request's inputs are
\* blank, nothing is aborted, written or recorded
NoRequest ==
    [handler |-> "none", header |-> <<>>, verifyErr |-> FALSE, claimsErr |-> FALSE,
     claims |-> NoClaims, authURL |-> "", idErr |-> FALSE, param |-> "",
     resp |-> NoResponse,
     aborted |-> FALSE, status |-> 0, errors |-> <<>>, nextCalls |-> 0]

\* no library function has been called
NoCall == [fn |-> "none"]

\* the value of timeouts, and of fetches, in a specification that does not count them
NotCounted == -1

Min(a, b) == IF a < b THEN a ELSE b

\* the message instances of the queue, and the number of the last one
Instances == DOMAIN pc
LastMsg == Cardinality(Instances)

\* the state before NewPullSubscriber runs, apart from its cfg argument and
\* the HTTP request, with the message instances M waiting in the queue
InitQueue(M) ==
    /\ ctorPc = "defaults"
    /\ active = FALSE
    /\ mu = 0
    /\ unsubscribed = 0
    /\ keyLocks = [k \in Keys |-> NoMutex]
    /\ mutexHolder = << >>
    /\ semaphore = 0
    /\ semCap = 0
    /\ loopPc = "none"
    /\ batch = << >>
    /\ nextMsg = 1
    /\ stopPc = [s \in Stoppers |-> "idle"]
    /\ pc = [m \in M |-> "none"]
    /\ lockingKey = [m \in M |-> NoKey]
    /\ keyMutex = [m \in M |-> NoMutex]
    /\ outcome = [m \in M |-> "none"]
    /\ ackResult = [m \in M |-> "none"]
    /\ overran = [m \in M |-> FALSE]
    /\ processCalls = [m \in M |-> 0]
    /\ finalized = [m \in M |-> << >>]
    /\ lockOps = [m \in M |-> << >>]
    /\ released = [m \in M |-> 0]
    /\ crashed = FALSE

InitWorker == InitQueue(Msgs)

\* the dispatcher: MaxWait only feeds the Fetch call, so one value is enough
Init ==
    /\ cfg \in [BatchSize : 0..MaxCfg, MaxConcurrent : 0..MaxCfg, MaxWait : {0}]
    /\ InitWorker
    /\ gin = NoRequest
    /\ call = NoCall
    /\ timeouts = NotCounted
    /\ fetches = NotCounted

\* ------------------------------------------------------------------------
\* NewPullSubscriber
\* ------------------------------------------------------------------------
\* a bug that tests < 0 instead of <= 0
DefaultIntNegativeOnly(v, d) == IF v < 0 THEN d ELSE v

\* lines 48-53: a value <= 0 is replaced by the default
DefaultInt(v, d) == IF v <= 0 THEN d ELSE v

\* lines 54-56: only a zero MaxWait is replaced
DefaultWait(v) == IF v = 0 THEN DefaultMaxWait ELSE v

SetDefaults ==
    /\ ~crashed /\ ctorPc = "defaults"
    /\ cfg' = [BatchSize |-> DefaultInt(cfg.BatchSize, DefaultBatchSize),
               MaxConcurrent |-> DefaultInt(cfg.MaxConcurrent, DefaultMaxConcurrent),
               MaxWait |-> DefaultWait(cfg.MaxWait)]
    /\ ctorPc' = "addConsumer"
    /\ UNCHANGED <<semCap, gin, call, timeouts, fetches, subVars, regVars, semaphore, loopVars, stopPc, procVars, crashed>>

\* lines 59-67: JetStream.AddConsumer; on an error NewPullSubscriber returns it
AddConsumer ==
    /\ ~crashed /\ ctorPc = "addConsumer"
    /\ \E ok \in BOOLEAN : ctorPc' = IF ok THEN "pullSubscribe" ELSE "failedConsumer"
    /\ UNCHANGED <<semCap, gin, call, timeouts, fetches, cfg, subVars, regVars, semaphore, loopVars, stopPc, procVars, crashed>>

\* lines 70-73: JetStream.PullSubscribe; on an error NewPullSubscriber returns it
PullSubscribe ==
    /\ ~crashed /\ ctorPc = "pullSubscribe"
    /\ \E ok \in BOOLEAN : ctorPc' = IF ok THEN "construct" ELSE "failedSubscribe"
    /\ UNCHANGED <<semCap, gin, call, timeouts, fetches, cfg, subVars, regVars, semaphore, loopVars, stopPc, procVars, crashed>>

\* a bug that builds the subscriber and launches the loop before subscribing
LaunchPointBeforeSubscribe == "pullSubscribe"

\* lines 75-83 come after both error returns
LaunchPoint == "construct"

\* lines 75-83: build the struct and launch the fetch loop
Construct ==
    /\ ~crashed /\ ctorPc = LaunchPoint
    /\ active' = TRUE
    /\ keyLocks' = [k \in Keys |-> NoMutex]
    /\ semaphore' = 0
    /\ semCap' = cfg.MaxConcurrent
    /\ loopPc' = "check"
    /\ ctorPc' = "launched"
    /\ UNCHANGED <<gin, call, timeouts, fetches, cfg, mu, unsubscribed, mutexHolder, batch, nextMsg, stopPc,
                   procVars, crashed>>

\* lines 85-86
CtorReturn ==
    /\ ~crashed /\ ctorPc = "launched"
    /\ ctorPc' = "ok"
    /\ UNCHANGED <<semCap, gin, call, timeouts, fetches, cfg, subVars, regVars, semaphore, loopVars, stopPc, procVars, crashed>>

\* ------------------------------------------------------------------------
\* startDispatcher
\* ------------------------------------------------------------------------
\* a bug that reads the flag once, before the loop
ActiveSeenStale == TRUE

\* line 93: the flag is read anew in every iteration
ActiveSeen == active

\* lines 92-97: read ps.active under ps.mu
LoopCheckActive ==
    /\ ~crashed /\ loopPc = "check" /\ mu = 0
    /\ loopPc' = IF ActiveSeen THEN "fetch" ELSE "exited"
    /\ UNCHANGED <<semCap, gin, call, timeouts, fetches, cfg, ctorPc, subVars, regVars, semaphore, batch, nextMsg, stopPc,
                   procVars, crashed>>

\* line 99: the call to ps.sub.Fetch is issued
LoopFetchCall ==
    /\ ~crashed /\ loopPc = "fetch"
    /\ loopPc' = "fetching"
    /\ UNCHANGED <<semCap, gin, call, timeouts, fetches, cfg, ctorPc, subVars, regVars, semaphore, batch, nextMsg, stopPc,
                   procVars, crashed>>

\* a bug that treats the timeout like any other fetch error
AfterFetchTimeoutBackoff == "sleep"

\* lines 101-103: on nats.ErrTimeout the loop continues at once
AfterFetchTimeout == "check"

\* the count of Fetch timeouts, kept up to MaxTimeouts where it is kept at all
CountTimeout(t) == IF t = NotCounted THEN t ELSE Min(t + 1, MaxTimeouts)

\* lines 100-103: Fetch returned nats.ErrTimeout
LoopFetchTimeout ==
    /\ ~crashed /\ loopPc = "fetching"
    /\ loopPc' = AfterFetchTimeout
    /\ timeouts' = CountTimeout(timeouts)
    /\ UNCHANGED <<semCap, gin, call, fetches, cfg, ctorPc, subVars, regVars, semaphore, batch, nextMsg, stopPc,
                   procVars, crashed>>

\* a bug that gives up on a fetch error instead of backing off
AfterFetchErrorGiveUp == "exited"

\* lines 104-106: after a fetch error the loop logs, sleeps and continues
AfterFetchError == "sleep"

\* lines 100/104: Fetch returned an error other than nats.ErrTimeout
LoopFetchError ==
    /\ ~crashed /\ loopPc = "fetching"
    /\ loopPc' = AfterFetchError
    /\ UNCHANGED <<semCap, gin, call, timeouts, fetches, cfg, ctorPc, subVars, regVars, semaphore, batch, nextMsg, stopPc,
                   procVars, crashed>>

\* lines 105-106: time.Sleep(5s) is over
LoopBackoffDone ==
    /\ ~crashed /\ loopPc = "sleep"
    /\ loopPc' = "check"
    /\ UNCHANGED <<semCap, gin, call, timeouts, fetches, cfg, ctorPc, subVars, regVars, semaphore, batch, nextMsg, stopPc,
                   procVars, crashed>>

\* the count of Fetch calls that returned messages, where it is kept at all
CountFetch(f) == IF f = NotCounted THEN f ELSE f + 1

\* line 99: Fetch returned 1..BatchSize messages, in delivery order.  What Fetch
\* returns on a subscription that Stop() has unsubscribed is up to the nats
\* library, so every outcome stays possible.
LoopFetchBatch ==
    /\ ~crashed /\ loopPc = "fetching"
    /\ nextMsg <= LastMsg
    /\ \E n \in 1..Min(cfg.BatchSize, LastMsg - nextMsg + 1) :
          /\ batch' = [i \in 1..n |-> nextMsg + i - 1]
          /\ nextMsg' = nextMsg + n
    /\ loopPc' = "dispatch"
    /\ fetches' = CountFetch(fetches)
    /\ UNCHANGED <<semCap, gin, call, timeouts, cfg, ctorPc, subVars, regVars, semaphore, stopPc, procVars, crashed>>

\* a bug that makes the channel unbuffered-unbounded: the send never blocks
SlotFreeAlways == TRUE

\* a bug that stops handing messages over once Stop() has cleared ps.active
SlotFreeWhileActive == semaphore < semCap /\ active

\* lines 80/110: a send on the buffered channel proceeds only below its capacity
SlotFree == semaphore < semCap

\* line 110: ps.semaphore <- struct{}{} (blocks while the channel is full)
LoopAcquire ==
    /\ ~crashed /\ loopPc = "dispatch" /\ batch # << >>
    /\ SlotFree
    /\ semaphore' = semaphore + 1
    /\ loopPc' = "spawn"
    /\ UNCHANGED <<semCap, gin, call, timeouts, fetches, cfg, ctorPc, subVars, regVars, batch, nextMsg, stopPc, procVars, crashed>>

\* line 111: go ps.processMessage(msg)
LoopSpawn ==
    /\ ~crashed /\ loopPc = "spawn"
    /\ pc' = [pc EXCEPT ![Head(batch)] = "start"]
    /\ batch' = Tail(batch)
    /\ loopPc' = "dispatch"
    /\ UNCHANGED <<semCap, gin, call, timeouts, fetches, cfg, ctorPc, subVars, regVars, semaphore, nextMsg, stopPc,
                   lockingKey, keyMutex, outcome, ackResult, overran, processCalls,
                   finalized, lockOps, released, crashed>>

\* lines 109/113: the range over msgs is exhausted
LoopBatchDone ==
    /\ ~crashed /\ loopPc = "dispatch" /\ batch = << >>
    /\ loopPc' = "check"
    /\ UNCHANGED <<semCap, gin, call, timeouts, fetches, cfg, ctorPc, subVars, regVars, semaphore, batch, nextMsg, stopPc,
                   procVars, crashed>>

\* ------------------------------------------------------------------------
\* processMessage
\* ------------------------------------------------------------------------
\* a bug that forgets the return after the Nak of a key-extraction failure
AfterKeyErrorFallThrough == "process"

\* line 126: return (the deferred slot release runs next)
AfterKeyError == "release"

\* line 125: the finalize call made on a key-extraction failure
FinalizeOnKeyError == << <<"Nak", KeyErrNakDelay>> >>

\* lines 122-127: Handler.GetLockingKey returns a key (possibly empty), or an
\* error, and then the message is Nak'ed with the 5s delay and the function returns
GetLockingKey(m) ==
    /\ ~crashed /\ pc[m] = "start"
    /\ \/ /\ outcome' = [outcome EXCEPT ![m] = "keyErr"]
          /\ finalized' = [finalized EXCEPT ![m] = @ \o FinalizeOnKeyError]
          /\ pc' = [pc EXCEPT ![m] = AfterKeyError]
          /\ UNCHANGED lockingKey
       \/ \E k \in Keys \cup {NoKey} :
             /\ lockingKey' = [lockingKey EXCEPT ![m] = k]
             /\ pc' = [pc EXCEPT ![m] = IF k # NoKey THEN "getKeyMutex" ELSE "process"]
             /\ UNCHANGED <<outcome, finalized>>
    /\ UNCHANGED <<semCap, gin, call, timeouts, fetches, cfg, ctorPc, subVars, regVars, semaphore, loopVars, stopPc, keyMutex,
                   ackResult, overran, processCalls, lockOps, released, crashed>>

\* getKeyMutex, lines 156-162: lookup under the read lock
GetKeyMutexRead(m) ==
    /\ ~crashed /\ pc[m] = "getKeyMutex"
    /\ IF keyLocks[lockingKey[m]] # NoMutex
       THEN /\ keyMutex' = [keyMutex EXCEPT ![m] = keyLocks[lockingKey[m]]]
            /\ pc' = [pc EXCEPT ![m] = "lock"]
       ELSE /\ pc' = [pc EXCEPT ![m] = "createKeyMutex"]
            /\ UNCHANGED keyMutex
    /\ UNCHANGED <<semCap, gin, call, timeouts, fetches, cfg, ctorPc, subVars, regVars, semaphore, loopVars, stopPc, lockingKey,
                   outcome, ackResult, overran, processCalls, finalized, lockOps,
                   released, crashed>>

\* a bug that leaves out the second lookup
KeyAbsentUnchecked(k) == TRUE

\* lines 166-167: the second lookup, made under the write lock
KeyAbsent(k) == keyLocks[k] = NoMutex

\* a bug that hands the first mutex ever made to every key
GetKeyMutexCreateShared(m) ==
    /\ ~crashed /\ pc[m] = "createKeyMutex"
    /\ IF KeyAbsent(lockingKey[m])
       THEN IF mutexHolder = << >>
            THEN /\ mutexHolder' = Append(mutexHolder, 0)
                 /\ keyLocks' = [keyLocks EXCEPT ![lockingKey[m]] = 1]
                 /\ keyMutex' = [keyMutex EXCEPT ![m] = 1]
            ELSE /\ keyLocks' = [keyLocks EXCEPT ![lockingKey[m]] = 1]
                 /\ keyMutex' = [keyMutex EXCEPT ![m] = 1]
                 /\ UNCHANGED mutexHolder
       ELSE /\ keyMutex' = [keyMutex EXCEPT ![m] = keyLocks[lockingKey[m]]]
            /\ UNCHANGED regVars
    /\ pc' = [pc EXCEPT ![m] = "lock"]
    /\ UNCHANGED <<semCap, gin, call, timeouts, fetches, cfg, ctorPc, subVars, semaphore, loopVars, stopPc, lockingKey,
                   outcome, ackResult, overran, processCalls, finalized, lockOps,
                   released, crashed>>

\* getKeyMutex, lines 164-173: second lookup and creation under the write lock
GetKeyMutexCreate(m) ==
    /\ ~crashed /\ pc[m] = "createKeyMutex"
    /\ IF KeyAbsent(lockingKey[m])
       THEN /\ mutexHolder' = Append(mutexHolder, 0)
            /\ keyLocks' = [keyLocks EXCEPT ![lockingKey[m]] = Len(mutexHolder) + 1]
            /\ keyMutex' = [keyMutex EXCEPT ![m] = Len(mutexHolder) + 1]
       ELSE /\ keyMutex' = [keyMutex EXCEPT ![m] = keyLocks[lockingKey[m]]]
            /\ UNCHANGED regVars
    /\ pc' = [pc EXCEPT ![m] = "lock"]
    /\ UNCHANGED <<semCap, gin, call, timeouts, fetches, cfg, ctorPc, subVars, semaphore, loopVars, stopPc, lockingKey,
                   outcome, ackResult, overran, processCalls, finalized, lockOps,
                   released, crashed>>

\* a lock that admits its waiters in the order their messages were fetched
LockFreeInFetchOrder(m) ==
    /\ mutexHolder[keyMutex[m]] = 0
    /\ \A o \in 1..(m - 1) : ~(pc[o] = "lock" /\ keyMutex[o] = keyMutex[m])

\* line 132: a sync.Mutex admits any one waiter once it is unlocked
LockFree(m) == mutexHolder[keyMutex[m]] = 0

\* lines 132-133: keyMutex.Lock() (blocks while another processor holds it)
KeyLock(m) ==
    /\ ~crashed /\ pc[m] = "lock"
    /\ LockFree(m)
    /\ mutexHolder' = [mutexHolder EXCEPT ![keyMutex[m]] = m]
    /\ lockOps' = [lockOps EXCEPT ![m] = Append(@, "Lock")]
    /\ pc' = [pc EXCEPT ![m] = "process"]
    /\ UNCHANGED <<semCap, gin, call, timeouts, fetches, cfg, ctorPc, subVars, keyLocks, semaphore, loopVars, stopPc, lockingKey,
                   keyMutex, outcome, ackResult, overran, processCalls, finalized,
                   released, crashed>>

\* lines 139-142: Handler.Process is invoked with the 5-minute context
ProcessCall(m) ==
    /\ ~crashed /\ pc[m] = "process"
    /\ processCalls' = [processCalls EXCEPT ![m] = @ + 1]
    /\ pc' = [pc EXCEPT ![m] = "processing"]
    /\ UNCHANGED <<semCap, gin, call, timeouts, fetches, cfg, ctorPc, subVars, regVars, semaphore, loopVars, stopPc, lockingKey,
                   keyMutex, outcome, ackResult, overran, finalized, lockOps,
                   released, crashed>>

\* a bug that leaves out the deferred Unlock
AfterBodyNeverUnlock(m) == "release"

\* a bug that defers the Unlock outside the if
AfterBodyAlwaysUnlock(m) == "unlock"

\* the deferred calls that run when the function body is left: keyMutex.Unlock()
\* if a key lock was taken (line 133), else straight to the slot release (line 119)
AfterBody(m) == IF lockingKey[m] # NoKey THEN "unlock" ELSE "release"

\* a bug that Naks a handler failure with the short delay
FinalizeOnErrorShort == << <<"Nak", KeyErrNakDelay>> >>

\* line 144: the finalize call made when Handler.Process returned an error
FinalizeOnError == << <<"Nak", HandlerErrNakDelay>> >>

\* a bug that takes the failure branch when Handler.Process returned nil
FinalizeOnSuccessInverted(ackRes) == << <<"Nak", HandlerErrNakDelay>> >>

\* a bug that Naks the message when its Ack failed
FinalizeOnSuccessNakAfterAckError(ackRes) ==
    IF ackRes = "err" THEN << <<"Ack", 0>>, <<"Nak", HandlerErrNakDelay>> >>
                      ELSE << <<"Ack", 0>> >>

\* a bug that calls Ack again when it failed
FinalizeOnSuccessRetryAck(ackRes) ==
    IF ackRes = "err" THEN << <<"Ack", 0>>, <<"Ack", 0>> >> ELSE << <<"Ack", 0>> >>

\* a bug that leaves out the Ack
FinalizeOnSuccessNone(ackRes) == << >>

\* lines 146-150: the finalize calls made when Handler.Process returned nil;
\* the result of msg.Ack() only selects the log line
FinalizeOnSuccess(ackRes) == << <<"Ack", 0>> >>

\* a bug that logs the handler failure with log.Fatalf, which ends the process
ProcessFailFatal(m) ==
    /\ ~crashed /\ pc[m] = "processing"
    /\ \E late \in BOOLEAN : overran' = [overran EXCEPT ![m] = late]
    /\ outcome' = [outcome EXCEPT ![m] = "err"]
    /\ finalized' = [finalized EXCEPT ![m] = @ \o FinalizeOnError]
    /\ pc' = [pc EXCEPT ![m] = AfterBody(m)]
    /\ UNCHANGED <<semCap, gin, call, timeouts, fetches, cfg, ctorPc, subVars, regVars, semaphore, loopVars, stopPc, lockingKey,
                   keyMutex, ackResult, processCalls, lockOps, released>>
    /\ crashed' = TRUE

\* lines 142-144: Handler.Process returned an error (before or after the context
\* deadline: the call is synchronous, nothing interrupts it); NakWithDelay(15s)
ProcessFail(m) ==
    /\ ~crashed /\ pc[m] = "processing"
    /\ \E late \in BOOLEAN : overran' = [overran EXCEPT ![m] = late]
    /\ outcome' = [outcome EXCEPT ![m] = "err"]
    /\ finalized' = [finalized EXCEPT ![m] = @ \o FinalizeOnError]
    /\ pc' = [pc EXCEPT ![m] = AfterBody(m)]
    /\ UNCHANGED <<semCap, gin, call, timeouts, fetches, cfg, ctorPc, subVars, regVars, semaphore, loopVars, stopPc, lockingKey,
                   keyMutex, ackResult, processCalls, lockOps, released, crashed>>

\* lines 145-150: Handler.Process returned nil (before or after the context
\* deadline); msg.Ack() is called and its error is only logged
ProcessOk(m) ==
    /\ ~crashed /\ pc[m] = "processing"
    /\ \E late \in BOOLEAN : overran' = [overran EXCEPT ![m] = late]
    /\ outcome' = [outcome EXCEPT ![m] = "ok"]
    /\ \E res \in {"nil", "err"} :
          /\ ackResult' = [ackResult EXCEPT ![m] = res]
          /\ finalized' = [finalized EXCEPT ![m] = @ \o FinalizeOnSuccess(res)]
    /\ pc' = [pc EXCEPT ![m] = AfterBody(m)]
    /\ UNCHANGED <<semCap, gin, call, timeouts, fetches, cfg, ctorPc, subVars, regVars, semaphore, loopVars, stopPc, lockingKey,
                   keyMutex, processCalls, lockOps, released, crashed>>

\* line 142: Handler.Process panics; the deferred calls run while the panic unwinds
ProcessPanic(m) ==
    /\ ~crashed /\ pc[m] = "processing"
    /\ outcome' = [outcome EXCEPT ![m] = "panic"]
    /\ pc' = [pc EXCEPT ![m] = AfterBody(m)]
    /\ UNCHANGED <<semCap, gin, call, timeouts, fetches, cfg, ctorPc, subVars, regVars, semaphore, loopVars, stopPc, lockingKey,
                   keyMutex, ackResult, overran, processCalls, finalized, lockOps,
                   released, crashed>>

\* line 133: deferred keyMutex.Unlock()
KeyUnlock(m) ==
    /\ ~crashed /\ pc[m] = "unlock"
    /\ mutexHolder' = [mutexHolder EXCEPT ![keyMutex[m]] = 0]
    /\ lockOps' = [lockOps EXCEPT ![m] = Append(@, "Unlock")]
    /\ pc' = [pc EXCEPT ![m] = "release"]
    /\ UNCHANGED <<semCap, gin, call, timeouts, fetches, cfg, ctorPc, subVars, keyLocks, semaphore, loopVars, stopPc, lockingKey,
                   keyMutex, outcome, ackResult, overran, processCalls, finalized,
                   released, crashed>>

\* a bug that releases at the end of the body instead of in a deferred call
SlotsReleasedOnExitNoDefer(m) == IF outcome[m] = "panic" THEN 0 ELSE 1

\* lines 118-120: the deferred receive runs once on every way out of the function
SlotsReleasedOnExit(m) == 1

\* lines 118-120: deferred <-ps.semaphore (blocks while the channel is empty);
\* the goroutine ends and its locals are gone.  A panic nobody recovered then
\* leaves the goroutine and the Go runtime ends the process.
ReleaseSlot(m) ==
    /\ ~crashed /\ pc[m] = "release"
    /\ semaphore > 0
    /\ semaphore' = semaphore - SlotsReleasedOnExit(m)
    /\ released' = [released EXCEPT ![m] = @ + SlotsReleasedOnExit(m)]
    /\ pc' = [pc EXCEPT ![m] = "done"]
    /\ lockingKey' = [lockingKey EXCEPT ![m] = NoKey]
    /\ keyMutex' = [keyMutex EXCEPT ![m] = NoMutex]
    /\ ackResult' = [ackResult EXCEPT ![m] = "none"]
    /\ overran' = [overran EXCEPT ![m] = FALSE]
    /\ crashed' = (outcome[m] = "panic")
    /\ UNCHANGED <<semCap, gin, call, timeouts, fetches, cfg, ctorPc, subVars, regVars, loopVars, stopPc, outcome,
                   processCalls, finalized, lockOps>>

\* ------------------------------------------------------------------------
\* Stop
\* ------------------------------------------------------------------------
\* a bug that flips the flag and leaves out the early return
StopEffectToggle == [active |-> ~active, unsubscribe |-> TRUE]

\* a bug that leaves out the early return
StopEffectUnguarded == [active |-> FALSE, unsubscribe |-> TRUE]

\* lines 180-185: nothing when already stopped, else clear ps.active and go on
\* to Unsubscribe
StopEffect ==
    IF ~active THEN [active |-> active, unsubscribe |-> FALSE]
               ELSE [active |-> FALSE, unsubscribe |-> TRUE]

\* lines 178-183: take ps.mu; return if already stopped, else clear ps.active
StopEnter(s) ==
    /\ ~crashed /\ stopPc[s] = "idle" /\ ctorPc = "ok"
    /\ mu = 0
    /\ active' = StopEffect.active
    /\ IF StopEffect.unsubscribe
       THEN /\ mu' = s
            /\ stopPc' = [stopPc EXCEPT ![s] = "unsubscribe"]
       ELSE /\ stopPc' = [stopPc EXCEPT ![s] = "returned"]
            /\ UNCHANGED mu
    /\ UNCHANGED <<semCap, gin, call, timeouts, fetches, cfg, ctorPc, unsubscribed, regVars, semaphore, loopVars, procVars,
                   crashed>>

\* a bug that throws the key-lock registry away on Stop
StopUnsubscribeClearsRegistry(s) ==
    /\ ~crashed /\ stopPc[s] = "unsubscribe"
    /\ unsubscribed' = unsubscribed + 1
    /\ mu' = 0
    /\ stopPc' = [stopPc EXCEPT ![s] = "returned"]
    /\ keyLocks' = [k \in Keys |-> NoMutex]
    /\ UNCHANGED <<semCap, gin, call, timeouts, fetches, cfg, ctorPc, active, mutexHolder, semaphore, loopVars,
                   procVars, crashed>>

\* lines 185-189: ps.sub.Unsubscribe(), then the deferred ps.mu.Unlock()
StopUnsubscribe(s) ==
    /\ ~crashed /\ stopPc[s] = "unsubscribe"
    /\ unsubscribed' = unsubscribed + 1
    /\ mu' = 0
    /\ stopPc' = [stopPc EXCEPT ![s] = "returned"]
    /\ UNCHANGED <<semCap, gin, call, timeouts, fetches, cfg, ctorPc, active, regVars, semaphore, loopVars, procVars, crashed>>

\* ------------------------------------------------------------------------
Next ==
    \/ SetDefaults
    \/ AddConsumer
    \/ PullSubscribe
    \/ Construct
    \/ CtorReturn
    \/ LoopCheckActive
    \/ LoopFetchCall
    \/ LoopFetchTimeout
    \/ LoopFetchError
    \/ LoopBackoffDone
    \/ LoopFetchBatch
    \/ LoopAcquire
    \/ LoopSpawn
    \/ LoopBatchDone
    \/ \E m \in Instances : GetLockingKey(m)
    \/ \E m \in Instances : GetKeyMutexRead(m)
    \/ \E m \in Instances : GetKeyMutexCreate(m)
    \/ \E m \in Instances : KeyLock(m)
    \/ \E m \in Instances : ProcessCall(m)
    \/ \E m \in Instances : ProcessFail(m)
    \/ \E m \in Instances : ProcessOk(m)
    \/ \E m \in Instances : ProcessPanic(m)
    \/ \E m \in Instances : KeyUnlock(m)
    \/ \E m \in Instances : ReleaseSlot(m)
    \/ \E s \in Stoppers : StopEnter(s)
    \/ \E s \in Stoppers : StopUnsubscribe(s)

Spec == Init /\ [][Next]_vars

\* ---- the subscriber under fair scheduling, with handlers that return ----
\* the steps of the fetch loop goroutine
LoopStep ==
    \/ LoopCheckActive
    \/ LoopFetchCall
    \/ LoopFetchTimeout
    \/ LoopFetchError
    \/ LoopBackoffDone
    \/ LoopFetchBatch
    \/ LoopAcquire
    \/ LoopSpawn
    \/ LoopBatchDone

\* the steps of the goroutine of message m when its handler calls return
ProcessorStep(m) ==
    \/ GetLockingKey(m)
    \/ GetKeyMutexRead(m)
    \/ GetKeyMutexCreate(m)
    \/ KeyLock(m)
    \/ ProcessCall(m)
    \/ ProcessFail(m)
    \/ ProcessOk(m)
    \/ KeyUnlock(m)
    \/ ReleaseSlot(m)

\* batches of up to MaxCfg messages, every positive number of slots
InitLive ==
    /\ cfg \in [BatchSize : {MaxCfg}, MaxConcurrent : 1..MaxCfg, MaxWait : {0}]
    /\ InitWorker
    /\ gin = NoRequest
    /\ call = NoCall
    /\ timeouts = NotCounted
    /\ fetches = NotCounted

\* an idle subscription: one message per batch, one slot; here the Fetch
\* timeouts are counted
InitIdle ==
    /\ cfg = [BatchSize |-> 1, MaxConcurrent |-> 1, MaxWait |-> 0]
    /\ InitWorker
    /\ gin = NoRequest
    /\ call = NoCall
    /\ timeouts = 0
    /\ fetches = NotCounted

NextLive ==
    \/ SetDefaults
    \/ AddConsumer
    \/ PullSubscribe
    \/ Construct
    \/ CtorReturn
    \/ LoopStep
    \/ \E m \in Instances : ProcessorStep(m)
    \/ \E s \in Stoppers : StopEnter(s)
    \/ \E s \in Stoppers : StopUnsubscribe(s)

\* the Go scheduler runs every goroutine that can run: the fetch loop, each
\* processor, and a Stop() call that holds ps.mu; Fetch and Sleep return
FairLive ==
    /\ WF_vars(LoopStep)
    /\ \A m \in Msgs : WF_vars(ProcessorStep(m))
    /\ \A s \in Stoppers : WF_vars(StopUnsubscribe(s))

SpecLive == InitLive /\ [][NextLive]_vars /\ FairLive

SpecIdle == InitIdle /\ [][NextLive]_vars /\ FairLive

\* ---- a running subscription that nobody stops: a queue of QueueMsgs messages,
\* batches of up to QueueMsgs, MaxCfg slots; here the Fetch calls that return
\* messages are counted ----
QueueInstances == 1..QueueMsgs

InitKeys ==
    /\ cfg = [BatchSize |-> QueueMsgs, MaxConcurrent |-> MaxCfg, MaxWait |-> 0]
    /\ InitQueue(QueueInstances)
    /\ gin = NoRequest
    /\ call = NoCall
    /\ timeouts = NotCounted
    /\ fetches = 0

NextKeys ==
    \/ SetDefaults
    \/ AddConsumer
    \/ PullSubscribe
    \/ Construct
    \/ CtorReturn
    \/ LoopStep
    \/ \E m \in Instances : ProcessorStep(m)

SpecKeys == InitKeys /\ [][NextKeys]_vars

\* NewPullSubscriber alone, over every shape of the cfg argument
InitCfg ==
    /\ cfg \in [BatchSize : -MaxCfg..MaxCfg, MaxConcurrent : -MaxCfg..MaxCfg,
                 MaxWait : {-1, 0, 1, DefaultMaxWait}]
    /\ InitWorker
    /\ gin = NoRequest
    /\ call = NoCall
    /\ timeouts = NotCounted
    /\ fetches = NotCounted

NextCfg ==
    \/ SetDefaults
    \/ AddConsumer
    \/ PullSubscribe
    \/ Construct
    \/ CtorReturn

SpecCfg == InitCfg /\ [][NextCfg]_vars

\* ------------------------------------------------------------------------
\* The auth middlewares (src/auth): one request passes one middleware.
\* gin holds the request's inputs, what the middleware did to the context
\* and what the auth service answered.
\* ------------------------------------------------------------------------
workerVars == <<cfg, ctorPc, active, mu, unsubscribed, keyLocks, mutexHolder, semaphore,
                loopPc, batch, nextMsg, stopPc, pc, lockingKey, keyMutex, outcome,
                ackResult, overran, processCalls, finalized, lockOps, released, crashed,
                semCap>>

\* Middleware.ClientID, and the client ID of some other service
ClientID == "svc"
OtherID == "other"
InternalCommRole == "internal-comm"
OtherRole == "user"

\* Authorization headers, as sequences of characters ("" when missing)
BearerPrefix == <<"B", "e", "a", "r", "e", "r", " ">>
LowerBearerPrefix == <<"b", "e", "a", "r", "e", "r", " ">>
Headers ==
    { <<>>,
      <<"B", "e", "a", "r", "e", "r", " ", "t">>,
      <<"B", "e", "a", "r", "e", "r", " ">>,
      <<"B", "e", "a", "r", "e", "r">>,
      <<"b", "e", "a", "r", "e", "r", " ", "t">>,
      <<"B", "E", "A", "R", "E", "R", " ", "t">>,
      <<"B", "a", "s", "i", "c", " ", "t">>,
      <<"t">> }

UpperChars == <<"A", "B", "C", "E", "I", "R", "S">>
LowerChars == <<"a", "b", "c", "e", "i", "r", "s">>

\* strings.HasPrefix
HasPrefix(s, prefix) ==
    Len(s) >= Len(prefix) /\ SubSeq(s, 1, Len(prefix)) = prefix

\* strings.ToLower
ToLowerChar(ch) ==
    IF \E i \in 1..Len(UpperChars) : UpperChars[i] = ch
    THEN LowerChars[CHOOSE i \in 1..Len(UpperChars) : UpperChars[i] = ch]
    ELSE ch

ToLower(s) == [i \in 1..Len(s) |-> ToLowerChar(s[i])]

\* the aud claim of a token
AudValues ==
    { Absent, NullV, NumV, StrV(ClientID), StrV(OtherID),
      ListV(<<>>), ListV(<<StrE(OtherID)>>), ListV(<<StrE(OtherID), StrE(ClientID)>>),
      ListV(<<NumE>>), ListV(<<NumE, StrE(ClientID)>>) }

\* the roles entry of realm_access
RolesValues ==
    { Absent, NullV, StrV(InternalCommRole),
      ListV(<<>>), ListV(<<StrE(OtherRole)>>),
      ListV(<<StrE(OtherRole), StrE(InternalCommRole)>>), ListV(<<NumE>>) }

RealmValues == {RealmAbsent, RealmNotMap} \cup {RealmMap(r) : r \in RolesValues}

ClaimsValues == [aud : AudValues, realm_access : RealmValues]

\* AUTH_SERVICE_URL: unset, one url.Parse rejects, a good one
BadURL == "://auth"
GoodURL == "http://auth"
AuthURLs == {"", BadURL, GoodURL}

\* what the auth service's check endpoint may answer
StatusCodes == {StatusOK, StatusNoContent, StatusBadRequest, StatusUnauthorized,
                StatusForbidden, StatusNotFound, StatusInternalServerError}

\* outcomes of client.Do: a transport error, or a response with its status
DoResults ==
    {[err |-> TRUE, status |-> NoResponse]}
        \cup {[err |-> FALSE, status |-> st] : st \in StatusCodes}

\* ---- gin.Context ----
Abort(c) == [c EXCEPT !.aborted = TRUE]

AbortWithStatusJSON(c, code) == [Abort(c) EXCEPT !.status = code]

Error(c, e) == [c EXCEPT !.errors = Append(@, e)]

\* c.Next(): the rest of the chain runs inside the call
GinNext(c) == [c EXCEPT !.nextCalls = @ + 1]

\* ---- errors.APIError ----
NewAPIError(statusCode) == [StatusCode |-> statusCode]
NewBadRequestError == NewAPIError(StatusBadRequest)
NewUnauthorizedError == NewAPIError(StatusUnauthorized)
NewForbiddenError == NewAPIError(StatusForbidden)
NewInternalServerError == NewAPIError(StatusInternalServerError)

\* ---- Middleware (src/auth/middleware.go) ----
isAudienceValidAnyString(claims) ==
    LET aud == claims.aud IN
    IF aud.t = "absent" THEN FALSE
    ELSE IF aud.t = "string" THEN TRUE
    ELSE IF aud.t = "list"
         THEN \E i \in 1..Len(aud.l) : aud.l[i].t = "string" /\ aud.l[i].s = ClientID
    ELSE FALSE

isAudienceValid(claims) ==
    LET aud == claims.aud IN
    IF aud.t = "absent" THEN FALSE
    ELSE IF aud.t = "string" THEN aud.s = ClientID
    ELSE IF aud.t = "list"
         THEN \E i \in 1..Len(aud.l) : aud.l[i].t = "string" /\ aud.l[i].s = ClientID
    ELSE FALSE

hasInternalCommRoleAnyRole(claims) ==
    LET realmAccess == claims.realm_access IN
    IF realmAccess.t # "map" THEN FALSE
    ELSE IF realmAccess.roles.t # "list" THEN FALSE
    ELSE \E i \in 1..Len(realmAccess.roles.l) : realmAccess.roles.l[i].t = "string"

hasInternalCommRole(claims) ==
    LET realmAccess == claims.realm_access IN
    IF realmAccess.t # "map" THEN FALSE
    ELSE IF realmAccess.roles.t # "list" THEN FALSE
    ELSE \E i \in 1..Len(realmAccess.roles.l) :
            /\ realmAccess.roles.l[i].t = "string"
            /\ realmAccess.roles.l[i].s = InternalCommRole

\* the handler UserAuth() returns, run on a request c
UserAuthHandler(c) ==
    IF ~HasPrefix(c.header, BearerPrefix) THEN AbortWithStatusJSON(c, StatusUnauthorized)
    ELSE IF c.verifyErr THEN AbortWithStatusJSON(c, StatusUnauthorized)
    ELSE IF c.claimsErr THEN AbortWithStatusJSON(c, StatusInternalServerError)
    ELSE IF ~isAudienceValid(c.claims) THEN AbortWithStatusJSON(c, StatusForbidden)
    ELSE GinNext(c)

\* the handler ServiceAuth() returns, run on a request c
ServiceAuthHandler(c) ==
    IF ~HasPrefix(c.header, BearerPrefix) THEN AbortWithStatusJSON(c, StatusUnauthorized)
    ELSE IF c.verifyErr THEN AbortWithStatusJSON(c, StatusUnauthorized)
    ELSE IF c.claimsErr THEN AbortWithStatusJSON(c, StatusInternalServerError)
    ELSE IF ~hasInternalCommRole(c.claims) THEN AbortWithStatusJSON(c, StatusForbidden)
    ELSE GinNext(c)

\* a request with a token: the header, whether Verifier.Verify and
\* IDToken.Claims fail on it, and the claims it carries
UserAuth ==
    /\ gin.handler = "none"
    /\ \E h \in Headers, ve \in BOOLEAN, ce \in BOOLEAN, cl \in ClaimsValues :
          gin' = UserAuthHandler([NoRequest EXCEPT !.handler = "UserAuth", !.header = h,
                                                   !.verifyErr = ve, !.claimsErr = ce,
                                                   !.claims = cl])
    /\ UNCHANGED <<workerVars, call, timeouts, fetches>>

ServiceAuth ==
    /\ gin.handler = "none"
    /\ \E h \in Headers, ve \in BOOLEAN, ce \in BOOLEAN, cl \in ClaimsValues :
          gin' = ServiceAuthHandler([NoRequest EXCEPT !.handler = "ServiceAuth",
                                                      !.header = h, !.verifyErr = ve,
                                                      !.claimsErr = ce, !.claims = cl])
    /\ UNCHANGED <<workerVars, call, timeouts, fetches>>

\* ---- RequirePermissionV2 ----
\* c.Error(e) followed by c.Abort()
DenyNoAbort(c, e) == Error(c, e)

Deny(c, e) == Abort(Error(c, e))

\* http.NewRequestWithContext fails on a URL it cannot parse
NewRequestFails(url) == url = BadURL

\* the response of the check endpoint, once client.Do returned one
Answered(c, do) == [c EXCEPT !.resp = do.status]

\* src/unnamed/part_000: RequirePermissionV2(httpClient, resourceType, idExtractor,
\* scope).  json.Marshal of a struct of strings cannot fail.
RequirePermissionV2ExtractorHandler(c, do) ==
    IF c.authURL = "" THEN Deny(c, NewInternalServerError)
    ELSE IF ~HasPrefix(c.header, BearerPrefix) THEN Deny(c, NewUnauthorizedError)
    ELSE IF c.idErr THEN Deny(c, NewBadRequestError)
    ELSE IF NewRequestFails(c.authURL) THEN Deny(c, NewInternalServerError)
    ELSE IF do.err THEN Deny(c, NewInternalServerError)
    ELSE IF do.status = StatusOK THEN GinNext(Answered(c, do))
    ELSE IF do.status = StatusForbidden THEN Deny(Answered(c, do), NewForbiddenError)
    ELSE Deny(Answered(c, do), NewInternalServerError)

\* src/auth/middleware_v2.go: RequirePermissionV2(resourcePrefix, paramName, scope)
RequirePermissionV2ParamHandler(c, do) ==
    IF c.authURL = "" THEN Deny(c, NewInternalServerError)
    ELSE IF c.header = <<>> THEN Deny(c, NewUnauthorizedError)
    ELSE IF ~HasPrefix(ToLower(c.header), LowerBearerPrefix)
         THEN Deny(c, NewUnauthorizedError)
    ELSE IF c.param = "" THEN Deny(c, NewBadRequestError)
    ELSE IF NewRequestFails(c.authURL) THEN Deny(c, NewInternalServerError)
    ELSE IF do.err THEN Deny(c, NewInternalServerError)
    ELSE IF do.status = StatusOK THEN GinNext(Answered(c, do))
    ELSE IF do.status = StatusForbidden THEN Deny(Answered(c, do), NewForbiddenError)
    ELSE IF do.status = StatusUnauthorized
         THEN Deny(Answered(c, do), NewUnauthorizedError)
    ELSE Deny(Answered(c, do), NewInternalServerError)

\* src/unnamed/part_002: RequirePermissionV2(httpClient, builder, scope)
RequirePermissionV2BuilderHandler(c, do) ==
    IF c.authURL = "" THEN Deny(c, NewInternalServerError)
    ELSE IF ~HasPrefix(c.header, BearerPrefix) THEN Deny(c, NewUnauthorizedError)
    ELSE IF c.idErr THEN Deny(c, NewBadRequestError)
    ELSE IF NewRequestFails(c.authURL) THEN Deny(c, NewInternalServerError)
    ELSE IF do.err THEN Deny(c, NewInternalServerError)
    ELSE IF do.status = StatusOK THEN GinNext(Answered(c, do))
    ELSE IF do.status = StatusForbidden THEN Deny(Answered(c, do), NewForbiddenError)
    ELSE Deny(Answered(c, do), NewInternalServerError)

\* a request to a route guarded by the extractor variant: the environment's
\* AUTH_SERVICE_URL, the header, whether idExtractor fails, what client.Do gives
RequirePermissionV2Extractor ==
    /\ gin.handler = "none"
    /\ \E u \in AuthURLs, h \in Headers, ie \in BOOLEAN, do \in DoResults :
          gin' = RequirePermissionV2ExtractorHandler(
                     [NoRequest EXCEPT !.handler = "RequirePermissionV2Extractor",
                                       !.authURL = u, !.header = h, !.idErr = ie], do)
    /\ UNCHANGED <<workerVars, call, timeouts, fetches>>

RequirePermissionV2Param ==
    /\ gin.handler = "none"
    /\ \E u \in AuthURLs, h \in Headers, p \in {"", "42"}, do \in DoResults :
          gin' = RequirePermissionV2ParamHandler(
                     [NoRequest EXCEPT !.handler = "RequirePermissionV2Param",
                                       !.authURL = u, !.header = h, !.param = p], do)
    /\ UNCHANGED <<workerVars, call, timeouts, fetches>>

RequirePermissionV2Builder ==
    /\ gin.handler = "none"
    /\ \E u \in AuthURLs, h \in Headers, ie \in BOOLEAN, do \in DoResults :
          gin' = RequirePermissionV2BuilderHandler(
                     [NoRequest EXCEPT !.handler = "RequirePermissionV2Builder",
                                       !.authURL = u, !.header = h, !.idErr = ie], do)
    /\ UNCHANGED <<workerVars, call, timeouts, fetches>>

\* one request through one of the middlewares; no subscriber is running
InitAuth ==
    /\ cfg = [BatchSize |-> 0, MaxConcurrent |-> 0, MaxWait |-> 0]
    /\ InitWorker
    /\ gin = NoRequest
    /\ call = NoCall
    /\ timeouts = NotCounted
    /\ fetches = NotCounted

NextAuth ==
    \/ UserAuth
    \/ ServiceAuth
    \/ RequirePermissionV2Extractor
    \/ RequirePermissionV2Param
    \/ RequirePermissionV2Builder

SpecAuth == InitAuth /\ [][NextAuth]_vars

\* ------------------------------------------------------------------------
\* Library functions (src/clients, src/auth): call holds the arguments of
\* one call and what it returned.
\* ------------------------------------------------------------------------
StatusConflict == 409

\* ---- clients.HandleResponse ----
\* an error value: which object it is (nil, the package variable ErrConflict,
\* or a newly allocated APIError) and its fields
NilError == [ptr |-> "nil", StatusCode |-> 0, Message |-> ""]
NewAPIErrorMsg(statusCode, message) ==
    [ptr |-> "new", StatusCode |-> statusCode, Message |-> message]
ErrConflict ==
    [ptr |-> "ErrConflict", StatusCode |-> StatusConflict,
     Message |-> "resource already exists"]
NewNotFoundError(message) == NewAPIErrorMsg(StatusNotFound, message)

\* the APIError a JSON error body decodes to: its own status_code and message
DecodedStatusCode == 418
DecodedAPIError == NewAPIErrorMsg(DecodedStatusCode, "from body")

\* response statuses around the 2xx range and the two special cases
RespStatuses == {100, 199, StatusOK, StatusNoContent, 299, 300, StatusBadRequest,
                 StatusNotFound, StatusConflict, StatusInternalServerError}

\* a response: its status, whether reading the body stream fails, whether
\* the body is JSON of the expected shape or not
Responses == [StatusCode : RespStatuses, readErr : BOOLEAN, body : {"json", "garbage"}]

\* json.NewDecoder(resp.Body).Decode on the original body stream
DecodeFails(resp) == resp.readErr \/ resp.body = "garbage"

\* the tail both versions share: the success branch (lines 46-52, 88-94)
HandleSuccess(resp, successBody) ==
    IF successBody # "nil" /\ DecodeFails(resp)
    THEN NewAPIErrorMsg(StatusInternalServerError, "failed to decode success response")
    ELSE NilError

\* src/clients/response_handler.go lines 16-53: the version that reads and
\* logs the body of a non-2xx response first
HandleResponseLogged(resp, successBody) ==
    IF resp.StatusCode < 200 \/ resp.StatusCode >= 300
    THEN IF resp.readErr
         THEN NewAPIErrorMsg(resp.StatusCode, "failed to read error response body")
         ELSE IF resp.StatusCode = StatusConflict THEN ErrConflict
         ELSE IF resp.StatusCode = StatusNotFound
              THEN NewNotFoundError("resource not found")
         ELSE IF resp.body = "garbage"
              THEN NewAPIErrorMsg(resp.StatusCode, "unknown error")
         ELSE [DecodedAPIError EXCEPT !.StatusCode = resp.StatusCode]
    ELSE HandleSuccess(resp, successBody)

\* src/clients/response_handler.go lines 68-95: the version that decodes directly
HandleResponsePlain(resp, successBody) ==
    IF resp.StatusCode < 200 \/ resp.StatusCode >= 300
    THEN IF resp.StatusCode = StatusConflict THEN ErrConflict
         ELSE IF resp.StatusCode = StatusNotFound
              THEN NewNotFoundError("resource not found")
         ELSE IF DecodeFails(resp)
              THEN NewAPIErrorMsg(resp.StatusCode, "unknown error")
         ELSE [DecodedAPIError EXCEPT !.StatusCode = resp.StatusCode]
    ELSE HandleSuccess(resp, successBody)

CallHandleResponseLogged ==
    /\ call.fn = "none"
    /\ \E resp \in Responses, successBody \in {"nil", "ptr"} :
          call' = [fn |-> "HandleResponseLogged", resp |-> resp,
                   successBody |-> successBody,
                   result |-> HandleResponseLogged(resp, successBody)]
    /\ UNCHANGED <<workerVars, gin, timeouts, fetches>>

CallHandleResponsePlain ==
    /\ call.fn = "none"
    /\ \E resp \in Responses, successBody \in {"nil", "ptr"} :
          call' = [fn |-> "HandleResponsePlain", resp |-> resp,
                   successBody |-> successBody,
                   result |-> HandleResponsePlain(resp, successBody)]
    /\ UNCHANGED <<workerVars, gin, timeouts, fetches>>

\* ---- auth.AreAttributesEqual ----
AttrKeys == {"k1", "k2"}
AttrValues == {"x", "y"}
\* []string of up to MaxLen values
ValueLists == UNION {[1..n -> AttrValues] : n \in 0..MaxLen}
\* map[string][]string
AttrMaps == UNION {[S -> ValueLists] : S \in SUBSET AttrKeys}

\* mapA of lines 106-109: the set of the values of valA
ValueSet(valA) == {valA[i] : i \in DOMAIN valA}

\* src/unnamed/part_005 lines 92-118
AreAttributesEqual(a, b) ==
    IF Cardinality(DOMAIN a) # Cardinality(DOMAIN b) THEN FALSE
    ELSE \A key \in DOMAIN a :
            /\ key \in DOMAIN b
            /\ Len(a[key]) = Len(b[key])
            /\ \A i \in DOMAIN b[key] : b[key][i] \in ValueSet(a[key])

CallAreAttributesEqual ==
    /\ call.fn = "none"
    /\ \E a \in AttrMaps, b \in AttrMaps :
          call' = [fn |-> "AreAttributesEqual", a |-> a, b |-> b,
                   result |-> AreAttributesEqual(a, b)]
    /\ UNCHANGED <<workerVars, gin, timeouts, fetches>>

\* one call of one of the library functions; no subscriber is running
InitCalls ==
    /\ cfg = [BatchSize |-> 0, MaxConcurrent |-> 0, MaxWait |-> 0]
    /\ InitWorker
    /\ gin = NoRequest
    /\ call = NoCall
    /\ timeouts = NotCounted
    /\ fetches = NotCounted

NextCalls ==
    \/ CallHandleResponseLogged
    \/ CallHandleResponsePlain
    \/ CallAreAttributesEqual

SpecCalls == InitCalls /\ [][NextCalls]_vars

\* ------------------------------------------------------------------------
\* Properties
\* ------------------------------------------------------------------------
InProcess(m) == pc[m] = "processing"
Live(m) == pc[m] \notin {"none", "done"}
AckCall == <<"Ack", 0>>
NakShort == <<"Nak", 5>>
NakLong == <<"Nak", 15>>
StopReturned == \E s \in Stoppers : stopPc[s] = "returned"

\* C1: for every non-empty ordering key, at most one processor is inside
\* Handler.Process for a message with that key.
C1_KeyMutualExclusion ==
    \A m1, m2 \in Msgs :
        (m1 # m2 /\ InProcess(m1) /\ InProcess(m2) /\ lockingKey[m1] # NoKey)
            => lockingKey[m1] # lockingKey[m2]

\* two messages of one key: one inside Handler.Process, the other blocked on the lock
C1_Witness ==
    \E m1, m2 \in Msgs :
        /\ m1 # m2 /\ lockingKey[m1] # NoKey /\ lockingKey[m1] = lockingKey[m2]
        /\ InProcess(m1) /\ pc[m2] = "lock"
        /\ keyMutex[m1] = keyMutex[m2] /\ mutexHolder[keyMutex[m2]] = m1

\* C2: the number of Handler.Process invocations in progress never exceeds
\* max-concurrent, also when more messages than that were fetched.
C2_HandlerConcurrencyBound ==
    Cardinality({m \in Msgs : InProcess(m)}) <= cfg.MaxConcurrent

\* max-concurrent invocations are in progress while a fetched message still waits
C2_Witness ==
    /\ Cardinality({m \in Msgs : InProcess(m)}) = cfg.MaxConcurrent
    /\ loopPc = "dispatch" /\ batch # << >>

\* C3: the slots acquired and not yet released are the live processors plus a
\* slot the fetch loop has acquired and not yet handed over, and never exceed
\* max-concurrent.
C3_AdmissionGate ==
    /\ semaphore <= cfg.MaxConcurrent
    /\ semaphore = Cardinality({m \in Msgs : Live(m)})
                     + (IF loopPc = "spawn" THEN 1 ELSE 0)

\* the gate is full: one slot is with a live processor, the last one was just acquired
C3_Witness ==
    /\ loopPc = "spawn" /\ semaphore = cfg.MaxConcurrent
    /\ \E m \in Msgs : Live(m)

\* C4: a message whose Handler.Process returned success has exactly one Ack
\* call and no Nak call.
C4_SuccessAckedOnce ==
    \A m \in Msgs : outcome[m] = "ok" => finalized[m] = <<AckCall>>

\* a successfully handled message whose processor has exited
C4_Witness ==
    \E m \in Msgs : outcome[m] = "ok" /\ pc[m] = "done" /\ finalized[m] = <<AckCall>>

\* C5 (as claimed): a message whose Handler.Process returned an error or ran
\* past the deadline is Nak'ed once with the 15s delay, never Ack'ed.
C5_FailureOrOverrunNakedLong ==
    \A m \in Msgs :
        (outcome[m] = "err" \/ overran[m]) => finalized[m] = <<NakLong>>

\* C6: a message whose key extraction failed is Nak'ed with the 5s delay,
\* Handler.Process is never invoked for it, it takes no key lock, and no step
\* of its processor touches the key-lock registry.
C6_KeyErrorState ==
    \A m \in Msgs :
        outcome[m] = "keyErr" =>
            /\ finalized[m] = <<NakShort>>
            /\ processCalls[m] = 0
            /\ lockOps[m] = << >>
            /\ keyMutex[m] = NoMutex
            /\ \A i \in 1..Len(mutexHolder) : mutexHolder[i] # m

C6_KeyErrorStep ==
    \A m \in Msgs :
        (outcome'[m] = "keyErr" /\ pc'[m] # pc[m]) => UNCHANGED regVars

C6_KeyErrorNakedNeverProcessed == []C6_KeyErrorState /\ [][C6_KeyErrorStep]_vars

\* a key-extraction failure whose processor has exited, with a registry entry
\* made by another message
C6_Witness ==
    \E m \in Msgs :
        /\ outcome[m] = "keyErr" /\ pc[m] = "done"
        /\ \E k \in Keys : keyLocks[k] # NoMutex

\* C7 (as claimed): once a Stop() call has returned, the fetch loop issues no
\* further Fetch call.
C7_NoFetchAfterStop ==
    [][StopReturned => ~(loopPc = "fetch" /\ loopPc' = "fetching")]_vars

\* C8: every processor receives from the semaphore exactly once, on its way
\* out, whatever its outcome, and never before.
C8_SlotReleasedOnce ==
    \A m \in Msgs : released[m] = (IF pc[m] = "done" THEN 1 ELSE 0)

\* a processor whose handler panicked has released its slot
C8_Witness ==
    \E m \in Msgs : outcome[m] = "panic" /\ pc[m] = "done" /\ released[m] = 1

\* C9: every message handed to a processor is finalized exactly once when
\* its handler calls return: one Ack or one Nak, never two calls.
C9_FinalizedOnce ==
    \A m \in Msgs :
        /\ Len(finalized[m]) <= 1
        /\ (pc[m] \in {"unlock", "release", "done"} /\ outcome[m] # "panic")
              => Len(finalized[m]) = 1
        /\ pc[m] \in {"none", "start", "getKeyMutex", "createKeyMutex", "lock",
                      "process", "processing"} => finalized[m] = << >>

\* two exited processors, one message Ack'ed and the other Nak'ed with the long delay
C9_Witness ==
    \E m1, m2 \in Msgs :
        /\ pc[m1] = "done" /\ finalized[m1] = <<AckCall>>
        /\ pc[m2] = "done" /\ finalized[m2] = <<NakLong>>

\* C10: the fetch loop ends only by observing the Stopped state at its check;
\* after a fetch error it is asleep, can always wake, and then goes back to
\* the check, which leads to the next Fetch while Active; no processor step
\* moves the loop.
C10_LoopState ==
    (loopPc = "sleep" /\ ~crashed) => ENABLED LoopBackoffDone

C10_LoopStep ==
    /\ (loopPc' = "exited" /\ loopPc # "exited") => (loopPc = "check" /\ ~active)
    /\ (loopPc = "fetching" /\ loopPc' # loopPc)
          => loopPc' \in {"check", "sleep", "dispatch"}
    /\ (loopPc = "sleep" /\ loopPc' # loopPc) => loopPc' = "check"
    /\ (loopPc = "check" /\ active /\ loopPc' # loopPc) => loopPc' = "fetch"
    /\ (\E m \in Msgs : pc[m] # "none" /\ pc'[m] # pc[m]) => loopPc' = loopPc

C10_LoopEndsOnlyOnStop == []C10_LoopState /\ [][C10_LoopStep]_vars

\* the loop is backing off after a fetch error, still Active, after a message failed
C10_Witness ==
    /\ loopPc = "sleep" /\ active
    /\ \E m \in Msgs : pc[m] = "done" /\ outcome[m] \in {"err", "keyErr"}

Constructed == ctorPc \in {"launched", "ok"}
SetupFailed == ctorPc \in {"failedConsumer", "failedSubscribe"}
InFlightPcs == {"start", "getKeyMutex", "createKeyMutex", "lock", "process",
                "processing", "unlock", "release"}

\* the steps of the processor of message m
ProcStep(m) ==
    \/ GetLockingKey(m) \/ GetKeyMutexRead(m) \/ GetKeyMutexCreate(m) \/ KeyLock(m)
    \/ ProcessCall(m) \/ ProcessFail(m) \/ ProcessOk(m) \/ ProcessPanic(m)
    \/ KeyUnlock(m) \/ ReleaseSlot(m)

\* a processor can take its next step, or waits for a key lock whose holder can
CanProceed(m) ==
    \/ ENABLED ProcStep(m)
    \/ /\ pc[m] = "lock" /\ mutexHolder[keyMutex[m]] # 0
       /\ pc[mutexHolder[keyMutex[m]]] \in {"process", "processing", "unlock"}

\* C11: the dispatcher is Active from construction on; the flag changes only
\* at construction and from Active to Stopped in Stop(); once Stopped it
\* stays Stopped.
C11_State ==
    /\ ~Constructed => ~active
    /\ ctorPc = "launched" => active

C11_Step ==
    /\ (Constructed /\ ~active) => ~active'
    /\ (active' # active) =>
          \/ (ctorPc = "construct" /\ ctorPc' = "launched" /\ active')
          \/ (active /\ \E s \in Stoppers :
                            stopPc[s] = "idle" /\ stopPc'[s] = "unsubscribe")

C11_LifecycleIrreversible == []C11_State /\ [][C11_Step]_vars

\* every Stop() call has returned, the loop has exited, a processor has completed
C11_Witness ==
    /\ Constructed /\ ~active /\ loopPc = "exited"
    /\ \A s \in Stoppers : stopPc[s] = "returned"
    /\ \E m \in Msgs : pc[m] = "done"

\* C12: a Stop() call on a Stopped dispatcher only returns, and over all
\* Stop() calls Unsubscribe is called exactly once.
C12_State ==
    /\ unsubscribed <= 1
    /\ StopReturned => unsubscribed = 1
    /\ unsubscribed = 1 => ~active

C12_Step ==
    \A s \in Stoppers :
        (stopPc[s] = "idle" /\ stopPc'[s] # "idle" /\ ~active) =>
            /\ stopPc'[s] = "returned"
            /\ UNCHANGED <<cfg, ctorPc, subVars, regVars, semaphore, semCap, loopVars,
                           procVars, crashed, gin>>

C12_StopIdempotent == []C12_State /\ [][C12_Step]_vars

\* all Stop() calls have returned and there was one Unsubscribe
C12_Witness ==
    /\ NumStoppers >= 2
    /\ \A s \in Stoppers : stopPc[s] = "returned"
    /\ unsubscribed = 1

\* C13: a failed consumer registration or subscription ends construction
\* with nothing started; the loop is launched only from the point after both
\* succeeded, in the order register, subscribe, set Active and launch.
C13_State ==
    /\ SetupFailed =>
          /\ loopPc = "none" /\ ~active /\ semCap = 0 /\ nextMsg = 1
          /\ \A s \in Stoppers : stopPc[s] = "idle"
    /\ loopPc # "none" => Constructed

C13_Step ==
    /\ SetupFailed => ctorPc' = ctorPc
    /\ (loopPc = "none" /\ loopPc' # "none")
          => (ctorPc = "construct" /\ active' /\ loopPc' = "check")
    /\ (ctorPc' = "construct" /\ ctorPc' # ctorPc) => ctorPc = "pullSubscribe"
    /\ (ctorPc' = "pullSubscribe" /\ ctorPc' # ctorPc) => ctorPc = "addConsumer"
    /\ (ctorPc' = "failedSubscribe" /\ ctorPc' # ctorPc) => ctorPc = "pullSubscribe"
    /\ (ctorPc' = "failedConsumer" /\ ctorPc' # ctorPc) => ctorPc = "addConsumer"

C13_NoPartialStart == []C13_State /\ [][C13_Step]_vars

\* the consumer was registered and the subscription failed
C13_Witness == ctorPc = "failedSubscribe" /\ loopPc = "none" /\ ~active

\* C14: no step of Stop() changes anything of a processor, the key locks or
\* the semaphore, and after Stop() has returned every processor in flight
\* can still go on to its finalization and its releases.
C14_State ==
    \A m \in Msgs :
        (StopReturned /\ ~crashed /\ pc[m] \in InFlightPcs) => CanProceed(m)

C14_Step ==
    (stopPc' # stopPc) => UNCHANGED <<procVars, regVars, semaphore, semCap>>

C14_StopLeavesInFlightWork == []C14_State /\ [][C14_Step]_vars

\* after Stop() returned a processor is inside Handler.Process with its key lock
\* and slot
C14_Witness ==
    /\ StopReturned
    /\ \E m \in Msgs :
          /\ pc[m] = "processing" /\ lockingKey[m] # NoKey
          /\ mutexHolder[keyMutex[m]] = m /\ semaphore >= 1

\* C15: the steps of a processor whose message failed (key extraction,
\* handler, Ack) change nothing of another processor, give back only its own
\* slot and key lock, and leave the dispatcher Active and the loop where it was.
Failed(m) == outcome[m] \in {"keyErr", "err"} \/ ackResult[m] = "err"

OthersUnchanged(m) ==
    \A o \in Msgs \ {m} :
        /\ pc'[o] = pc[o] /\ lockingKey'[o] = lockingKey[o]
        /\ keyMutex'[o] = keyMutex[o] /\ outcome'[o] = outcome[o]
        /\ ackResult'[o] = ackResult[o] /\ overran'[o] = overran[o]
        /\ processCalls'[o] = processCalls[o] /\ finalized'[o] = finalized[o]
        /\ lockOps'[o] = lockOps[o] /\ released'[o] = released[o]

C15_Step ==
    \A m \in Msgs :
        (pc'[m] # pc[m] /\ (Failed(m) \/ Failed(m)')) =>
            /\ OthersUnchanged(m)
            /\ UNCHANGED <<ctorPc, subVars, loopVars, stopPc, keyLocks, semCap, crashed>>
            /\ semaphore' = semaphore - (released'[m] - released[m])
            /\ Len(mutexHolder') = Len(mutexHolder)
            /\ \A i \in 1..Len(mutexHolder) :
                  mutexHolder'[i] # mutexHolder[i]
                      => (mutexHolder[i] = m /\ mutexHolder'[i] = 0)

C15_FailureIsolation == [][C15_Step]_vars

\* a failed message is done while another is inside Handler.Process and the
\* loop is running
C15_Witness ==
    \E m1, m2 \in Msgs :
        /\ outcome[m1] = "err" /\ pc[m1] = "done" /\ lockOps[m1] = <<"Lock", "Unlock">>
        /\ pc[m2] = "processing" /\ active /\ loopPc \notin {"none", "exited"}

\* C16: after a failed Ack the processor makes no further finalize call and
\* no further handler call, and it goes on to release its key lock and slot.
C16_State ==
    \A m \in Msgs :
        ackResult[m] = "err" =>
            /\ finalized[m] = <<AckCall>> /\ outcome[m] = "ok"
            /\ ~crashed => ENABLED ProcStep(m)

C16_Step ==
    \A m \in Msgs :
        ackResult[m] = "err" =>
            /\ finalized'[m] = finalized[m]
            /\ processCalls'[m] = processCalls[m]
            /\ pc'[m] = "done" =>
                  /\ released'[m] = 1
                  /\ \A i \in 1..Len(mutexHolder') : mutexHolder'[i] # m
                  /\ lockingKey[m] # NoKey => lockOps'[m] = <<"Lock", "Unlock">>

C16_AckErrorNotRetried == []C16_State /\ [][C16_Step]_vars

\* the Ack of a keyed message failed; its key lock is released, the slot comes next
C16_Witness ==
    \E m \in Msgs :
        ackResult[m] = "err" /\ pc[m] = "release" /\ lockOps[m] = <<"Lock", "Unlock">>

\* C17: after defaulting, batch size and max-concurrent are positive (a
\* value <= 0 became 10 resp. 25, a positive one is kept), a zero max-wait
\* became 30, and the semaphore is made with the effective max-concurrent.
C17_State ==
    /\ ctorPc # "defaults" =>
          cfg.BatchSize > 0 /\ cfg.MaxConcurrent > 0 /\ cfg.MaxWait # 0
    /\ Constructed => (semCap = cfg.MaxConcurrent /\ semCap > 0)

C17_Step ==
    /\ (ctorPc = "defaults" /\ ctorPc' # "defaults") =>
          /\ cfg'.BatchSize = (IF cfg.BatchSize <= 0 THEN 10 ELSE cfg.BatchSize)
          /\ cfg'.MaxConcurrent = (IF cfg.MaxConcurrent <= 0 THEN 25
                                                             ELSE cfg.MaxConcurrent)
          /\ cfg'.MaxWait = (IF cfg.MaxWait = 0 THEN 30 ELSE cfg.MaxWait)
    /\ ctorPc # "defaults" => cfg' = cfg

C17_ConfigDefaulting == []C17_State /\ [][C17_Step]_vars

\* constructed from a configuration that left everything to the defaults
C17_Witness ==
    /\ Constructed /\ semCap = 25
    /\ cfg.BatchSize = 10 /\ cfg.MaxWait = 30

\* ---- the auth middlewares ----
\* the handlers after the middleware ran: inside its c.Next(), or, when it
\* returned without aborting, as the chain goes on
NextHandlerRan(c) == c.nextCalls > 0 \/ ~c.aborted

BearerHeader(h) == Len(h) >= 7 /\ \A i \in 1..7 : h[i] = BearerPrefix[i]

AnyCaseBearerHeader(h) ==
    Len(h) >= 7 /\ \A i \in 1..7 : ToLowerChar(h[i]) = LowerBearerPrefix[i]

AudContainsClient(aud) ==
    \/ aud.t = "string" /\ aud.s = ClientID
    \/ aud.t = "list" /\ \E i \in DOMAIN aud.l : aud.l[i] = StrE(ClientID)

RolesContainInternalComm(realmAccess) ==
    /\ realmAccess.t = "map"
    /\ realmAccess.roles.t = "list"
    /\ \E i \in DOMAIN realmAccess.roles.l : realmAccess.roles.l[i] = StrE(InternalCommRole)

PermissionHandlers ==
    {"RequirePermissionV2Extractor", "RequirePermissionV2Param",
     "RequirePermissionV2Builder"}

\* C18: UserAuth lets a request reach the next handler only if its header
\* starts with "Bearer ", the token passed verification and aud is the
\* client ID or a list containing it; a request failing any of these is
\* aborted and the next handler never runs.
C18_UserAuthGate ==
    gin.handler = "UserAuth" =>
        /\ NextHandlerRan(gin) =>
              /\ BearerHeader(gin.header)
              /\ ~gin.verifyErr
              /\ AudContainsClient(gin.claims.aud)
        /\ (~BearerHeader(gin.header) \/ gin.verifyErr
                \/ ~AudContainsClient(gin.claims.aud)) =>
              /\ gin.aborted
              /\ gin.nextCalls = 0
              /\ ~NextHandlerRan(gin)

\* a verified token whose aud list holds the client ID went through
C18_Witness ==
    /\ gin.handler = "UserAuth"
    /\ NextHandlerRan(gin)
    /\ gin.claims.aud.t = "list"

\* C19: ServiceAuth lets a request reach the next handler only if its
\* header starts with "Bearer ", the token passed verification and
\* realm_access.roles is a list containing "internal-comm"; every other
\* request is aborted and the next handler never runs.
C19_ServiceAuthGate ==
    gin.handler = "ServiceAuth" =>
        /\ NextHandlerRan(gin) =>
              /\ BearerHeader(gin.header)
              /\ ~gin.verifyErr
              /\ RolesContainInternalComm(gin.claims.realm_access)
        /\ (~BearerHeader(gin.header) \/ gin.verifyErr
                \/ ~RolesContainInternalComm(gin.claims.realm_access)) =>
              /\ gin.aborted
              /\ gin.nextCalls = 0
              /\ ~NextHandlerRan(gin)

\* a verified service token with the internal-comm role went through
C19_Witness ==
    /\ gin.handler = "ServiceAuth"
    /\ NextHandlerRan(gin)
    /\ gin.claims.realm_access.roles.t = "list"

\* C20: under RequirePermissionV2 the next handler runs iff the check
\* endpoint answered 200; otherwise the request is aborted with exactly one
\* error and the next handler never runs.  The endpoint is not even asked
\* when the URL is unset or unusable, the header is not a Bearer header or
\* the resource ID is missing.  403 gives a Forbidden error, a status the
\* variant has no case for gives an internal-server error (401 has a case
\* of its own, Unauthorized, in middleware_v2.go only).
C20_PermissionFailClosed ==
    gin.handler \in PermissionHandlers =>
        /\ NextHandlerRan(gin) <=> gin.resp = StatusOK
        /\ gin.resp = StatusOK =>
              gin.nextCalls = 1 /\ ~gin.aborted /\ gin.errors = <<>>
        /\ gin.resp # StatusOK =>
              gin.aborted /\ gin.nextCalls = 0 /\ Len(gin.errors) = 1
        /\ (gin.authURL # GoodURL \/ ~AnyCaseBearerHeader(gin.header) \/ gin.idErr
                \/ (gin.handler = "RequirePermissionV2Param" /\ gin.param = "")) =>
              gin.resp = NoResponse
        /\ gin.resp = StatusForbidden => gin.errors = <<NewForbiddenError>>
        /\ gin.resp = StatusUnauthorized =>
              gin.errors = <<IF gin.handler = "RequirePermissionV2Param"
                             THEN NewUnauthorizedError ELSE NewInternalServerError>>
        /\ gin.resp \notin {NoResponse, StatusOK, StatusForbidden, StatusUnauthorized} =>
              gin.errors = <<NewInternalServerError>>

\* the check endpoint refused: aborted, one Forbidden error
C20_Witness ==
    /\ gin.handler \in PermissionHandlers
    /\ gin.resp = StatusForbidden
    /\ gin.aborted
    /\ gin.errors = <<NewForbiddenError>>

\* ---- the library functions ----
HandleResponseCalls == {"HandleResponseLogged", "HandleResponsePlain"}

\* C21: HandleResponse maps every status as follows: 404 gives a new
\* NotFound APIError (status 404), 409 gives the predefined ErrConflict, any
\* other status outside 200..299 gives an APIError carrying the response
\* status, a 2xx status gives nil unless a success body fails to decode,
\* which gives an APIError with status 500.
C21_StatusMapping ==
    call.fn \in HandleResponseCalls =>
        LET st == call.resp.StatusCode
            res == call.result
        IN  /\ st = StatusNotFound =>
                  res.ptr = "new" /\ res.StatusCode = StatusNotFound
            /\ st = StatusConflict => res = ErrConflict
            /\ ((st < 200 \/ st > 299) /\ st \notin {StatusNotFound, StatusConflict}) =>
                  res.ptr = "new" /\ res.StatusCode = st
            /\ (st >= 200 /\ st <= 299) =>
                  IF call.successBody # "nil"
                        /\ (call.resp.readErr \/ call.resp.body = "garbage")
                  THEN res.ptr = "new" /\ res.StatusCode = StatusInternalServerError
                  ELSE res = NilError

\* the number of times v occurs in the list p
Occurrences(p, v) == Cardinality({i \in DOMAIN p : p[i] = v})

SameMultiset(p, q) == \A v \in AttrValues : Occurrences(p, v) = Occurrences(q, v)

\* C22: AreAttributesEqual(a, b) is true exactly when a and b have the same
\* keys and, for every key, lists holding the same values with the same
\* multiplicities.
C22_AttributesEqualIsMultisetEquality ==
    call.fn = "AreAttributesEqual" =>
        (call.result <=>
            /\ DOMAIN call.a = DOMAIN call.b
            /\ \A key \in DOMAIN call.a : SameMultiset(call.a[key], call.b[key]))

\* ---- order, backpressure and progress of the dispatcher ----
Fetched(m) == m < nextMsg
HoldsNoLock(m) == \A i \in DOMAIN mutexHolder : mutexHolder[i] # m
\* message m was finalized once and its processor gave its lock and slot back
Settled(m) ==
    /\ pc[m] = "done"
    /\ Len(finalized[m]) = 1
    /\ released[m] = 1
    /\ HoldsNoLock(m)
Spawned(m) == pc[m] # "none"
\* the fetch loop waits in the send on the full channel
LoopBlockedOnSlot == loopPc = "dispatch" /\ batch # << >> /\ semaphore = semCap

\* C24: with handler calls that return and fair scheduling, every fetched
\* message is eventually finalized once with its lock and slot given back,
\* and two processors with the same key are never in Handler.Process together.
C24_Sequential ==
    \A m1, m2 \in Msgs :
        (m1 # m2 /\ InProcess(m1) /\ InProcess(m2) /\ lockingKey[m1] # NoKey) =>
            lockingKey[m1] # lockingKey[m2]

C24_EveryFetchedMessageSettles ==
    /\ []C24_Sequential
    /\ \A m \in Msgs : Fetched(m) ~> Settled(m)

\* batch size 2, one slot, two messages that both took the lock of key "A":
\* both handler calls were made and both messages are settled
C24_Witness ==
    /\ cfg.BatchSize = 2 /\ semCap = 1
    /\ keyLocks["A"] # NoMutex /\ keyLocks["B"] = NoMutex
    /\ \A m \in Msgs :
          Settled(m) /\ processCalls[m] = 1 /\ lockOps[m] = <<"Lock", "Unlock">>

\* C25: once Stop() has cleared the flag, the fetch loop eventually reads it
\* at the start of an iteration and exits; an exited loop stays exited.
C25_Step == loopPc = "exited" => loopPc' = "exited"

C25_LoopExitsAfterStop ==
    /\ (Constructed /\ ~active) ~> (loopPc = "exited")
    /\ [][C25_Step]_vars

\* Stop() has returned and the loop has exited
C25_Witness == loopPc = "exited" /\ ~active /\ StopReturned /\ Constructed

\* C26: a Fetch timeout takes the loop straight back to the state check,
\* with no backoff, no processor spawned and no message finalized; a batch
\* fetched after MaxTimeouts timeouts is dispatched and settled like any other.
C26_Step ==
    timeouts' # timeouts =>
        /\ loopPc = "fetching" /\ loopPc' = "check"
        /\ UNCHANGED <<procVars, semaphore, batch, nextMsg, regVars, subVars>>

C26_TimeoutIsSilent ==
    /\ [][C26_Step]_vars
    /\ \A m \in Msgs :
          (timeouts = MaxTimeouts /\ loopPc = "spawn" /\ Head(batch) = m) ~> Settled(m)

\* after MaxTimeouts timeouts the first batch, of one message, was fetched
\* and its message is about to be handed to a processor
C26_Witness ==
    /\ timeouts = MaxTimeouts
    /\ loopPc = "spawn" /\ nextMsg = 2 /\ batch = <<1>>

\* C23: the fetch loop takes a slot for a message before it spawns that
\* message's processor, in batch order; while every slot is held the loop
\* stays at the send (no spawn, no fetch) until a processor gives a slot
\* back; a processor never takes a slot.
C23_State ==
    /\ semaphore = Cardinality({m \in Msgs : Live(m)}) + (IF loopPc = "spawn" THEN 1 ELSE 0)
    /\ \A m \in Msgs : Spawned(m) => \A m2 \in 1..(m - 1) : Spawned(m2)
    /\ \A i \in DOMAIN batch : batch[i] = nextMsg - Len(batch) + i - 1

C23_Step ==
    /\ \A m \in Msgs :
          (~Spawned(m) /\ pc'[m] # "none") =>
              /\ loopPc = "spawn" /\ Head(batch) = m /\ batch' = Tail(batch)
              /\ pc'[m] = "start"
              /\ semaphore' = semaphore
    /\ semaphore' > semaphore =>
          /\ loopPc = "dispatch" /\ loopPc' = "spawn"
          /\ semaphore < semCap
          /\ UNCHANGED procVars
    /\ LoopBlockedOnSlot =>
          \/ semaphore' < semaphore
          \/ UNCHANGED loopVars /\ pc'[Head(batch)] = "none"

C23_BackpressureAndHandOff == []C23_State /\ [][C23_Step]_vars

\* every slot is held and the loop waits with a message still to hand over
C23_Witness == LoopBlockedOnSlot /\ semCap >= 1 /\ \E m \in Msgs : InProcess(m)

\* C27: the Fetch call and the Unsubscribe call are each made under ps.mu, so
\* a fetch and an unsubscribe are never in progress at the same time.
C27_FetchAndUnsubscribeExclusive ==
    ~(loopPc = "fetching" /\ \E s \in Stoppers : stopPc[s] = "unsubscribe")

\* C28: every getKeyMutex call for a key returns the lock stored for it, at
\* most one lock is made per key, and a stored lock is never replaced or
\* removed.
C28_State ==
    /\ \A m \in Msgs :
          keyMutex[m] # NoMutex =>
              lockingKey[m] # NoKey /\ keyMutex[m] = keyLocks[lockingKey[m]]
    /\ Len(mutexHolder) = Cardinality({k \in Keys : keyLocks[k] # NoMutex})
    /\ \A k1, k2 \in Keys :
          (k1 # k2 /\ keyLocks[k1] # NoMutex) => keyLocks[k1] # keyLocks[k2]

C28_Step ==
    /\ \A k \in Keys : keyLocks[k] # NoMutex => keyLocks'[k] = keyLocks[k]
    /\ Len(mutexHolder') >= Len(mutexHolder)

C28_RegistryUniqueness == []C28_State /\ [][C28_Step]_vars

\* a processor found the key absent in the first lookup and another one
\* stored its lock before the second lookup
C28_Witness ==
    \E m \in Msgs : pc[m] = "createKeyMutex" /\ keyLocks[lockingKey[m]] # NoMutex

\* C29: a processor waiting for a key lock waits for a processor of the
\* same key only.
C29_DistinctKeysIndependent ==
    \A m \in Msgs :
        (pc[m] = "lock" /\ mutexHolder[keyMutex[m]] # 0) =>
            lockingKey[mutexHolder[keyMutex[m]]] = lockingKey[m]

\* two slots, keys "A" and "B": both Handler.Process calls are in progress
C29_Witness ==
    /\ semCap >= 2
    /\ \E m1, m2 \in Msgs :
          /\ InProcess(m1) /\ lockingKey[m1] = "A"
          /\ InProcess(m2) /\ lockingKey[m2] = "B"

\* C30: a processor whose key is empty takes no key lock, never waits for
\* one and leaves the registry as it is.
C30_State ==
    \A m \in Msgs :
        (Live(m) /\ lockingKey[m] = NoKey) =>
            /\ pc[m] \in {"start", "process", "processing", "release"}
            /\ keyMutex[m] = NoMutex
            /\ lockOps[m] = << >>
            /\ HoldsNoLock(m)

C30_Step ==
    \A m \in Msgs :
        (pc'[m] # pc[m] /\ lockingKey'[m] = NoKey) => UNCHANGED keyLocks

C30_EmptyKeyNoSerialization == []C30_State /\ [][C30_Step]_vars

\* every message has the empty key, all are in Handler.Process at once and
\* the registry is empty
C30_Witness ==
    /\ \A m \in Msgs : InProcess(m) /\ lockingKey[m] = NoKey
    /\ \A k \in Keys : keyLocks[k] = NoMutex

\* C37: AreAttributesEqual gives the same answer with its arguments swapped.
C37_AttributesEqualSymmetric ==
    call.fn = "AreAttributesEqual" =>
        call.result = AreAttributesEqual(call.b, call.a)

\* the place of a position of processMessage in the order of its steps
StepRank(p) ==
    CASE p = "none" -> 0
      [] p = "start" -> 1
      [] p = "getKeyMutex" -> 2
      [] p = "createKeyMutex" -> 3
      [] p = "lock" -> 4
      [] p = "process" -> 5
      [] p = "processing" -> 6
      [] p = "unlock" -> 7
      [] p = "release" -> 8
      [] p = "done" -> 9

\* C31: the steps of a processor come in the order key extraction, lock
\* acquisition for a non-empty key, one Handler.Process call, one finalize
\* call; GetLockingKey and Process are called at most once per message and
\* nothing is called after the message was Ack'ed or Nak'ed.
C31_State ==
    \A m \in Msgs :
        /\ processCalls[m] <= 1 /\ Len(finalized[m]) <= 1
        /\ pc[m] \in {"none", "start", "getKeyMutex", "createKeyMutex", "lock", "process"} =>
               processCalls[m] = 0 /\ finalized[m] = << >> /\ outcome[m] = "none"
        /\ pc[m] \in {"none", "start"} => lockingKey[m] = NoKey /\ lockOps[m] = << >>
        /\ (pc[m] \in {"process", "processing"} /\ lockingKey[m] # NoKey) =>
               lockOps[m] = <<"Lock">>
        /\ InProcess(m) => processCalls[m] = 1 /\ finalized[m] = << >>
        /\ finalized[m] # << >> => pc[m] \in {"unlock", "release", "done"}
        /\ outcome[m] = "keyErr" =>
               processCalls[m] = 0 /\ lockOps[m] = << >> /\ finalized[m] = <<NakShort>>
        /\ outcome[m] \in {"ok", "err"} => processCalls[m] = 1 /\ Len(finalized[m]) = 1

C31_Step ==
    \A m \in Msgs :
        /\ StepRank(pc'[m]) >= StepRank(pc[m])
        /\ (lockingKey'[m] # lockingKey[m] /\ pc'[m] # "done") =>
               pc[m] = "start" /\ pc'[m] # "start"
        /\ outcome'[m] # outcome[m] => outcome[m] = "none" /\ pc'[m] # pc[m]
        /\ processCalls'[m] # processCalls[m] =>
               pc[m] = "process" /\ pc'[m] = "processing"
        /\ finalized[m] # << >> =>
               /\ finalized'[m] = finalized[m]
               /\ processCalls'[m] = processCalls[m]
               /\ outcome'[m] = outcome[m]

C31_StepOrderNoRetry == []C31_State /\ [][C31_Step]_vars

\* a keyed message went through lock, Process, Ack and unlock, once each
C31_Witness ==
    \E m \in Msgs :
        /\ pc[m] = "done" /\ outcome[m] = "ok"
        /\ lockOps[m] = <<"Lock", "Unlock">>
        /\ processCalls[m] = 1 /\ finalized[m] = <<AckCall>>

\* C32: a processor that took a key lock gives it back exactly once on every
\* way out (success, failure, ack failure, panic): past its unlock it holds
\* no lock, and whoever holds a lock is a processor on its way to the unlock.
C32_State ==
    /\ \A m \in Msgs :
          /\ lockOps[m] \in {<< >>, <<"Lock">>, <<"Lock", "Unlock">>}
          /\ lockOps[m] = <<"Lock">> <=> ~HoldsNoLock(m)
          /\ lockOps[m] = <<"Lock">> <=>
                 (pc[m] \in {"process", "processing", "unlock"} /\ lockingKey[m] # NoKey)
          /\ pc[m] \in {"release", "done"} => HoldsNoLock(m)
          /\ (pc[m] = "unlock" /\ ~crashed) => ENABLED KeyUnlock(m)
    /\ \A i \in DOMAIN mutexHolder :
          mutexHolder[i] # 0 =>
              /\ pc[mutexHolder[i]] \in {"process", "processing", "unlock"}
              /\ keyMutex[mutexHolder[i]] = i

C32_Step ==
    \A m \in Msgs :
        lockOps'[m] # lockOps[m] =>
            \/ pc[m] = "lock" /\ lockOps'[m] = <<"Lock">>
            \/ pc[m] = "unlock" /\ lockOps'[m] = <<"Lock", "Unlock">>

C32_NoKeyLockLeak == []C32_State /\ [][C32_Step]_vars

\* the handler of one message panicked; its lock was given back while the
\* panic unwound and the other message of the same key has taken it
C32_Witness ==
    \E m1, m2 \in Msgs :
        /\ outcome[m1] = "panic" /\ pc[m1] = "release"
        /\ lockOps[m1] = <<"Lock", "Unlock">>
        /\ lockingKey[m2] = lockingKey[m1]
        /\ lockOps[m2] = <<"Lock">> /\ mutexHolder[keyMutex[m1]] = m2

\* C34: when Handler.Process returned, a keyed message's Ack or Nak is made
\* before its key lock is given back, so the next message of the key enters
\* Handler.Process after it; and the key lock is given back before the slot.
C34_State ==
    /\ \A m \in Msgs :
          /\ (lockOps[m] = <<"Lock", "Unlock">> /\ outcome[m] # "panic") =>
                 Len(finalized[m]) = 1
          /\ released[m] > 0 => lockOps[m] # <<"Lock">> /\ HoldsNoLock(m)
    /\ \A m1, m2 \in Msgs :
          (/\ m1 # m2
           /\ InProcess(m2) /\ lockingKey[m2] # NoKey
           /\ lockingKey[m1] = lockingKey[m2]
           /\ processCalls[m1] > 0 /\ outcome[m1] # "panic") =>
              Len(finalized[m1]) = 1

C34_Step ==
    \A m \in Msgs :
        /\ (lockOps[m] = <<"Lock">> /\ lockOps'[m] # lockOps[m]) =>
               /\ released[m] = 0 /\ released'[m] = 0
               /\ finalized'[m] = finalized[m]
               /\ outcome[m] # "panic" => Len(finalized[m]) = 1
        /\ (finalized'[m] # finalized[m] /\ lockingKey[m] # NoKey) =>
               lockOps[m] = <<"Lock">> /\ lockOps'[m] = <<"Lock">>
        /\ released'[m] # released[m] => HoldsNoLock(m) /\ lockOps'[m] = lockOps[m]

C35_State ==
    /\ (~crashed /\ loopPc = "dispatch" /\ batch # << >> /\ semaphore < semCap) =>
           ENABLED LoopAcquire
    /\ (~crashed /\ loopPc = "spawn") => batch # << >> /\ ENABLED LoopSpawn
    /\ loopPc \in {"check", "fetch", "fetching", "sleep", "exited"} => batch = << >>

C35_Step ==
    /\ (loopPc' = "exited" /\ loopPc # "exited") =>
           loopPc = "check" /\ ~active /\ batch = << >>
    /\ batch' # batch =>
           \/ loopPc = "fetching" /\ batch = << >>
           \/ /\ loopPc = "spawn" /\ batch' = Tail(batch)
              /\ pc[Head(batch)] = "none" /\ pc'[Head(batch)] = "start"
    /\ (active /\ ~active') => UNCHANGED <<loopVars, procVars, semaphore>>

C35_StopKeepsFetchedBatch == []C35_State /\ [][C35_Step]_vars

\* Stop() has returned and the loop is about to start the processor of a
\* message of its batch
C35_Witness ==
    /\ StopReturned /\ ~active
    /\ loopPc = "spawn" /\ pc[Head(batch)] = "none"

\* C33: an unlocked key lock admits any waiter, whatever the order in which
\* the messages were fetched.
C33_AnyWaiterMayEnter ==
    \A m \in QueueInstances :
        (~crashed /\ pc[m] = "lock" /\ mutexHolder[keyMutex[m]] = 0) => ENABLED KeyLock(m)

\* messages 1 and 2 came in one batch with the same key: Handler.Process of
\* message 2 has returned and the message is finalized while message 1 still
\* waits for the key lock, its Handler.Process not yet called
C33_Witness ==
    /\ fetches = 1 /\ semCap >= 2
    /\ lockingKey[1] # NoKey /\ lockingKey[2] = lockingKey[1]
    /\ pc[2] = "unlock" /\ processCalls[2] = 1 /\ Len(finalized[2]) = 1
    /\ pc[1] = "lock" /\ processCalls[1] = 0

\* C36: a processor holds its slot from its start to its end, also while it
\* waits for a key lock; with every slot held the loop cannot hand over
\* another message until a processor ends.
C36_State ==
    /\ semaphore <= semCap
    /\ Cardinality({m \in QueueInstances : pc[m] \in InFlightPcs}) <= semaphore
    /\ LoopBlockedOnSlot => ~ENABLED LoopAcquire /\ ~ENABLED LoopSpawn

C36_Step ==
    /\ \A m \in QueueInstances :
          released'[m] # released[m] => pc[m] = "release" /\ pc'[m] = "done"
    /\ (LoopBlockedOnSlot /\ ~LoopBlockedOnSlot') =>
          \E m \in QueueInstances : pc[m] = "release" /\ pc'[m] = "done"

C36_SlotsHeldWhileWaiting == []C36_State /\ [][C36_Step]_vars

\* both slots are held by processors of one key, one in Handler.Process and
\* one waiting for the key lock, and the loop waits with the third message
\* of the batch
C36_Witness ==
    /\ semCap = 2 /\ semaphore = semCap /\ fetches = 1
    /\ LoopBlockedOnSlot /\ Head(batch) = 3
    /\ \E m1, m2 \in QueueInstances :
          /\ InProcess(m1) /\ pc[m2] = "lock"
          /\ lockingKey[m1] # NoKey /\ lockingKey[m2] = lockingKey[m1]
          /\ mutexHolder[keyMutex[m2]] = m1
    /\ Cardinality({m \in QueueInstances : InProcess(m)}) < semaphore

====
